---- MODULE Spec2Model ----
(***************************************************************************)
(* Research Paper Simplifier (src/main.py): the abstract locator of the    *)
(* upload handler as operators over character sequences, and the request   *)
(* handlers POST /upload, GET /quiz and GET /flashcards as actions over    *)
(* the temporary-file store, the Mistral client handle and the rendered    *)
(* views.                                                                  *)
(*                                                                         *)
(* A text is a sequence of one-character strings.  "U0130" stands for the  *)
(* code point U+0130 (capital I with dot above) and "U0307" for the        *)
(* combining dot above: str.lower() maps U+0130 to the two characters      *)
(* "i" U+0307, the only code point whose lowercase mapping is longer than  *)
(* one character.                                                          *)
(***************************************************************************)
EXTENDS Integers, Sequences, FiniteSets, TLC

----------------------------------------------------------------------------
(* Bounds of the model *)

\* pieces a generated document text is made of, at most
MaxPieces == 4
\* length of the long filler piece (just under the 3000-character cut)
FillerLen == 2991
\* concurrent upload requests
NumReqs == 2
\* longest list the remote model returns under "questions" / "flashcards"
MaxList == 3

----------------------------------------------------------------------------
(* Program constants *)

start_marker == <<"a", "b", "s", "t", "r", "a", "c", "t">>
end_marker == <<"i", "n", "t", "r", "o", "d", "u", "c", "t", "i", "o", "n">>
\* the 3000 of full_text[... : start_index + 3000] and full_text[:3000]
AbstractLimit == 3000
\* "Could not automatically find abstract."
NotFoundText ==
    <<"C", "o", "u", "l", "d", " ", "n", "o", "t", " ", "a", "u", "t", "o", "m",
    "a", "t", "i", "c", "a", "l", "l", "y", " ", "f", "i", "n", "d", " ", "a",
    "b", "s", "t", "r", "a", "c", "t", ".">>
MinQuestions == 1
MaxQuestions == 5
MinCards == 1
MaxCards == 10
Difficulties == {"easy", "medium", "hard"}

----------------------------------------------------------------------------
(* Python string operations, on sequences of characters *)

Whitespace == {" ", "\n"}

\* the characters of the model whose lowercase mapping is not themselves
Cased == {"A", "B", "C", "D", "I", "N", "O", "R", "S", "T", "U", "U0130"}

\* the lowercase mapping of one character
LowerChar(c) ==
    IF c \notin Cased THEN <<c>>
    ELSE CASE c = "U0130" -> <<"i", "U0307">>
           [] c = "A" -> <<"a">>
           [] c = "B" -> <<"b">>
           [] c = "C" -> <<"c">>
           [] c = "D" -> <<"d">>
           [] c = "I" -> <<"i">>
           [] c = "N" -> <<"n">>
           [] c = "O" -> <<"o">>
           [] c = "R" -> <<"r">>
           [] c = "S" -> <<"s">>
           [] c = "T" -> <<"t">>
           [] c = "U" -> <<"u">>

\* str.lower(): the concatenation, in order, of every character's lowercase
\* mapping.  A run of characters with one-character mappings is mapped in
\* place; the recursion steps from one longer mapping to the next.
RECURSIVE LowerFrom(_, _)
LowerFrom(s, i) ==
    LET n == Len(s)
        P == {j \in i..n : Len(LowerChar(s[j])) # 1}
        p == IF P = {} THEN n + 1 ELSE CHOOSE j \in P : \A q \in P : j <= q
        run == [k \in 1..(p - i) |-> LowerChar(s[i + k - 1])[1]]
    IN IF p > n THEN <<>> \o run
       ELSE run \o LowerChar(s[p]) \o LowerFrom(s, p + 1)

Lower(s) == LowerFrom(s, 1)

\* str.find(sub, start): the lowest 0-based index >= start where sub occurs,
\* -1 when there is none; a negative start counts from the end.
Find(s, sub, start) ==
    LET n == Len(s)
        m == Len(sub)
        st == IF start < 0 THEN (IF start + n < 0 THEN 0 ELSE start + n)
              ELSE start
        M == {i \in st..(n - m) : \A k \in 1..m : s[i + k] = sub[k]}
    IN IF M = {} THEN -1 ELSE CHOOSE i \in M : \A j \in M : i <= j

\* s[a:b] for 0 <= a and 0 <= b, both clamped to the length
Slice(s, a, b) ==
    LET n == Len(s)
        lo == IF a > n THEN n ELSE a
        hi == IF b > n THEN n ELSE b
    IN IF hi <= lo THEN <<>> ELSE SubSeq(s, lo + 1, hi)

\* str.strip(): leading and trailing whitespace removed
Strip(s) ==
    LET n == Len(s)
        IsWs(i) == s[i] \in Whitespace
    IN IF \A i \in 1..n : IsWs(i) THEN <<>>
       ELSE SubSeq(s,
              CHOOSE i \in 1..n : ~IsWs(i) /\ \A j \in 1..(i - 1) : IsWs(j),
              CHOOSE i \in 1..n : ~IsWs(i) /\ \A j \in (i + 1)..n : IsWs(j))

----------------------------------------------------------------------------
(* The abstract locator of upload_paper *)

\* Faulty variant: the "abstract only" branch without its cut.
ExtractAbstract_uncut(full_text) ==
    LET low == Lower(full_text)
        start_index == Find(low, start_marker, 0)
        end_index == Find(low, end_marker, start_index)
    IN IF start_index # -1 /\ end_index # -1
         THEN Strip(Slice(full_text, start_index + Len(start_marker), end_index))
       ELSE IF start_index # -1
         THEN Strip(Slice(full_text, start_index + Len(start_marker),
                          Len(full_text)))
       ELSE NotFoundText

\* Faulty variant: the head of the text when no marker is found.
ExtractAbstract_head(full_text) ==
    LET low == Lower(full_text)
        start_index == Find(low, start_marker, 0)
        end_index == Find(low, end_marker, start_index)
    IN IF start_index # -1 /\ end_index # -1
         THEN Strip(Slice(full_text, start_index + Len(start_marker), end_index))
       ELSE IF start_index # -1
         THEN Strip(Slice(full_text, start_index + Len(start_marker),
                          start_index + AbstractLimit))
       ELSE Slice(full_text, 0, AbstractLimit)

\* raw_abstract as lines 53-64 compute it.  str.lower and str.find raise
\* nothing on a str, so the except branch (full_text[:3000]) is never taken.
ExtractAbstract(full_text) ==
    LET low == Lower(full_text)
        start_index == Find(low, start_marker, 0)
        end_index == Find(low, end_marker, start_index)
    IN IF start_index # -1 /\ end_index # -1
         THEN Strip(Slice(full_text, start_index + Len(start_marker), end_index))
       ELSE IF start_index # -1
         THEN Strip(Slice(full_text, start_index + Len(start_marker),
                          start_index + AbstractLimit))
       ELSE NotFoundText

----------------------------------------------------------------------------
(* Document texts: up to MaxPieces pieces *)

Filler == [i \in 1..FillerLen |-> "x"]

Piece(p) ==
    CASE p = "Abs" -> <<"A", "b", "s", "t", "r", "a", "c", "t">>
      [] p = "INTRO" -> <<"I", "N", "T", "R", "O", "D", "U", "C", "T", "I", "O", "N">>
      [] p = "sp" -> <<" ">>
      [] p = "w" -> <<"w">>
      [] p = "dotI" -> <<"U0130">>
      [] p = "fill" -> Filler

Pieces == {"Abs", "INTRO", "sp", "w", "dotI", "fill"}

RECURSIVE Flatten(_)
Flatten(ps) ==
    IF ps = <<>> THEN <<>> ELSE Piece(Head(ps)) \o Flatten(Tail(ps))

Texts == UNION {[1..n -> Pieces] : n \in 0..MaxPieces}

----------------------------------------------------------------------------
(* The PDF library (fitz) and the uploaded bodies.  A body is a sequence of
   bytes abstracted to a magic number followed by the pieces of its text. *)

PdfOf(ps) == <<"%PDF">> \o ps

Bodies == {PdfOf(<<"Abs", "w", "INTRO">>), PdfOf(<<"w">>), <<"junk">>}

\* fitz.open(path) raises on a file that is empty or not a PDF
IsPdf(data) == Len(data) > 0 /\ data[1] = "%PDF"

\* the concatenation of page.get_text() over the pages
ExtractText(data) == Flatten(Tail(data))

----------------------------------------------------------------------------
(* The remote model: what client.chat.complete(...) does, and the content of
   chat_response.choices[0].message.content *)

\* the call raises (network), the SDK raises on an error response, or the
\* response holds no choices and choices[0] raises
RemoteFailures == {"network_error", "remote_error", "no_choices"}

\* JSON values, all with the same three fields
JNull == [t |-> "null", items |-> <<>>, fields |-> <<>>]
JStr == [t |-> "str", items |-> <<>>, fields |-> <<>>]
JList(k) == [t |-> "list", items |-> [i \in 1..k |-> "item"], fields |-> <<>>]
JObj(f) == [t |-> "obj", items |-> <<>>, fields |-> f]

JValues == {JStr} \cup {JList(k) : k \in 0..MaxList}

\* message contents of a JSON-mode call that asks for key: text that
\* json.loads rejects, a JSON document that is no object, an object without
\* the key, an object with the key
Unparseable == [t |-> "unparseable", items |-> <<>>, fields |-> <<>>]
Contents(key) ==
    {Unparseable, JNull, JList(1), JObj("other" :> JList(1))}
      \cup {JObj(key :> v) : v \in JValues}

SummaryOutcomes ==
    {[status |-> f, content |-> ""] : f \in RemoteFailures}
      \cup {[status |-> "ok", content |-> "simplified text"]}

JsonOutcomes(key) ==
    {[status |-> f, content |-> Unparseable] : f \in RemoteFailures}
      \cup {[status |-> "ok", content |-> c] : c \in Contents(key)}

\* json.loads(content_str)
json_loads(content) ==
    IF content.t = "unparseable" THEN [raised |-> TRUE, value |-> JNull]
    ELSE [raised |-> FALSE, value |-> content]

\* parsed_json.get(key, []): AttributeError unless parsed_json is a dict
dict_get(parsed_json, key) ==
    IF parsed_json.t # "obj" THEN [raised |-> TRUE, value |-> JNull]
    ELSE IF key \in DOMAIN parsed_json.fields
      THEN [raised |-> FALSE, value |-> parsed_json.fields[key]]
    ELSE [raised |-> FALSE, value |-> JList(0)]

\* "not x" on a returned value
Falsy(v) == v.t = "null" \/ (v.t = "list" /\ v.items = <<>>)

----------------------------------------------------------------------------
(* State *)

Reqs == 1..NumReqs
Filenames == {"a.pdf", "b.pdf", "x/c.pdf"}

\* f"temp_{paper.filename}"
temp_pdf_path(fname) == <<"temp_", fname>>
Paths == {temp_pdf_path(f) : f \in Filenames}

\* open(path, 'wb') fails when the path names a directory that does not exist
OpenFails(path) == path[2] = "x/c.pdf"

NoFile == 0

VARIABLES
    client,        \* "configured" or "None" (lines 14-19)
    fs,            \* path -> the file it names (the id of the request that
                   \*   created it) or NoFile
    content,       \* file id -> its bytes
    pc,            \* request -> "init", "reading", "closing", "done"
    filename,      \* request -> paper.filename
    body,          \* request -> the uploaded bytes, once read as a PDF
    fd,            \* request -> the file its open() returned, or NoFile
    remote,        \* request -> what its summary call did, once made
    alone,         \* request -> what upload_paper answers to the same
                   \*   upload, read, write and remote outcome on a server
                   \*   that handles nothing else
    parsed,        \* request -> the PDF extraction succeeded
    response,      \* request -> the response of upload_paper
    network_used,  \* some handler called client.chat.complete
    view,          \* the view last rendered by GET /quiz or GET /flashcards
    full_text,     \* locator run: the text
    raw_abstract,  \* locator run: the abstract
    loc_pc         \* locator run: "off", "start", "done"

vars == <<client, fs, content, pc, filename, body, fd, remote, alone, parsed,
          response, network_used, view, full_text, raw_abstract, loc_pc>>

uploadVars ==
    <<fs, content, pc, filename, body, fd, remote, alone, parsed, response>>
locVars == <<full_text, raw_abstract, loc_pc>>

NoSummary == [kind |-> "default", detail |-> "Could not generate summary."]
NotConfigured ==
    [kind |-> "not_configured",
     detail |-> "Mistral API client not configured. Please set MISTRAL_API_KEY in .env"]
ApiError(e) == [kind |-> "api_error", detail |-> e]

Redirect ==
    [kind |-> "redirect", filename |-> "", summary |-> NoSummary, raw_abstract |-> <<>>]
Results(fname, summary, abstract) ==
    [kind |-> "results", filename |-> fname, summary |-> summary,
     raw_abstract |-> abstract]
NoResponse ==
    [kind |-> "none", filename |-> "", summary |-> NoSummary, raw_abstract |-> <<>>]

NoView ==
    [route |-> "none", page |-> "none", n |-> 0, outcome |-> [status |-> "none", content |-> JNull],
     items |-> JNull, error |-> "None"]

QuizError ==
    "Failed to generate quiz from the model. It might be too busy or the abstract was too complex. Please try again."
FlashcardsError ==
    "Failed to generate flashcards from the model. It might be too busy or the abstract was too complex. Please try again."

----------------------------------------------------------------------------
(* POST /upload *)

\* f.write(data) on a file opened at offset 0: the bytes replace the head of
\* what the file holds
Overlay(old, new) == new \o SubSeq(old, Len(new) + 1, Len(old))

\* Faulty variant: the finally block without the removal.
Cleanup_kept(fsv, path) == fsv

\* finally: if os.path.exists(temp_pdf_path): os.remove(temp_pdf_path)
Cleanup(fsv, path) ==
    IF fsv[path] # NoFile THEN [fsv EXCEPT ![path] = NoFile] ELSE fsv

\* Faulty variant: the summary call made whether or not a client exists.
Summarize_unguarded(cl, outcome) ==
    IF outcome.status \in RemoteFailures
      THEN [called |-> TRUE, raised |-> FALSE, summary |-> ApiError(outcome.status)]
    ELSE [called |-> TRUE, raised |-> FALSE,
          summary |-> [kind |-> "content", detail |-> outcome.content]]

\* Faulty variant: the summary call outside any try block.
Summarize_untried(cl, outcome) ==
    IF cl = "configured"
      THEN IF outcome.status \in RemoteFailures
             THEN [called |-> TRUE, raised |-> TRUE, summary |-> NoSummary]
           ELSE [called |-> TRUE, raised |-> FALSE,
                 summary |-> [kind |-> "content", detail |-> outcome.content]]
    ELSE [called |-> FALSE, raised |-> FALSE, summary |-> NotConfigured]

\* lines 66-83: summary, whether the remote model was called, and whether an
\* exception leaves the block
Summarize(cl, outcome) ==
    IF cl = "configured"
      THEN IF outcome.status \in RemoteFailures
             THEN [called |-> TRUE, raised |-> FALSE,
                   summary |-> ApiError(outcome.status)]
           ELSE [called |-> TRUE, raised |-> FALSE,
                 summary |-> [kind |-> "content", detail |-> outcome.content]]
    ELSE [called |-> FALSE, raised |-> FALSE, summary |-> NotConfigured]

\* storage reclaimed: a file that no path names and no waiting request other
\* than r holds open has no content left
Reclaim(contentv, fsv, r) ==
    [f \in Reqs |->
        IF \/ \E p \in Paths : fsv[p] = f
           \/ \E q \in Reqs \ {r} : pc[q] = "reading" /\ fd[q] = f
          THEN contentv[f] ELSE <<>>]

\* lines 39-43, up to the suspension at "await paper.read()": the file is
\* opened (created, or truncated when the path exists) before the await.  A
\* failing open goes through except and finally to "await paper.close()".
UploadStart(r, fname) ==
    /\ pc[r] = "init"
    /\ filename' = [filename EXCEPT ![r] = fname]
    /\ LET path == temp_pdf_path(fname)
           file == IF fs[path] # NoFile THEN fs[path] ELSE r
       IN IF OpenFails(path)
            THEN /\ response' = [response EXCEPT ![r] = Redirect]
                 /\ alone' = [alone EXCEPT ![r] = Redirect]
                 /\ fs' = Cleanup(fs, path)
                 /\ pc' = [pc EXCEPT ![r] = "closing"]
                 /\ UNCHANGED <<content, fd>>
          ELSE /\ fs' = [fs EXCEPT ![path] = file]
               /\ content' = [content EXCEPT ![file] = <<>>]
               /\ fd' = [fd EXCEPT ![r] = file]
               /\ pc' = [pc EXCEPT ![r] = "reading"]
               /\ UNCHANGED <<response, alone>>
    /\ UNCHANGED <<client, body, remote, parsed, network_used, view>>
    /\ UNCHANGED locVars

\* lines 39-100 run from start to end with no other request on the server
AloneResponse(fname, data, how, outcome) ==
    IF ~OpenFails(temp_pdf_path(fname)) /\ how = "ok" /\ IsPdf(data)
      THEN Results(fname, Summarize(client, outcome).summary,
                   ExtractAbstract(ExtractText(data)))
    ELSE Redirect

\* lines 43-100, from the resumption of "await paper.read()" to the suspension
\* at "await paper.close()": nothing in between awaits.  data: the uploaded
\* bytes; how: the read raises, the write raises after a partial write, or
\* both succeed.
UploadResume(r, data, how, outcome) ==
    /\ pc[r] = "reading"
    /\ LET path == temp_pdf_path(filename[r])
           file == fd[r]
           written ==
               CASE how = "ok" -> Overlay(content[file], data)
                 [] how = "write_fail" ->
                      Overlay(content[file], SubSeq(data, 1, Len(data) - 1))
                 [] how = "read_fail" -> content[file]
           content1 == [content EXCEPT ![file] = written]
           opened == how = "ok" /\ fs[path] # NoFile /\ IsPdf(content1[fs[path]])
           s == Summarize(client, outcome)
           resp == IF opened /\ ~s.raised
                     THEN Results(filename[r], s.summary,
                                  ExtractAbstract(ExtractText(content1[fs[path]])))
                   ELSE Redirect
       IN /\ parsed' = [parsed EXCEPT ![r] = opened]
          /\ body' = IF opened THEN [body EXCEPT ![r] = data] ELSE body
          /\ response' = [response EXCEPT ![r] = resp]
          /\ network_used' = (network_used \/ (opened /\ s.called))
          /\ remote' = IF opened /\ s.called
                          THEN [remote EXCEPT ![r] = outcome] ELSE remote
          /\ fs' = Cleanup(fs, path)
          /\ content' = Reclaim(content1, Cleanup(fs, path), r)
    /\ alone' = [alone EXCEPT ![r] = AloneResponse(filename[r], data, how, outcome)]
    /\ pc' = [pc EXCEPT ![r] = "closing"]
    /\ UNCHANGED <<client, filename, fd, view>>
    /\ UNCHANGED locVars

\* "await paper.close()" completes and the response is returned
UploadReturn(r) ==
    /\ pc[r] = "closing"
    /\ pc' = [pc EXCEPT ![r] = "done"]
    /\ UNCHANGED <<client, fs, content, filename, body, fd, remote, alone, parsed,
                   response, network_used, view>>
    /\ UNCHANGED locVars

----------------------------------------------------------------------------
(* GET /quiz and GET /flashcards *)

\* Faulty variant: the value under the key returned without the list check.
generate_flashcards_unchecked(cl, num_cards, outcome) ==
    IF cl # "configured"
      THEN [called |-> FALSE, raised |-> FALSE, result |-> JList(0)]
    ELSE IF outcome.status \in RemoteFailures
      THEN [called |-> TRUE, raised |-> FALSE, result |-> JList(0)]
    ELSE LET parsed_json == json_loads(outcome.content)
             card_list == dict_get(parsed_json.value, "flashcards")
         IN IF parsed_json.raised \/ card_list.raised
              THEN [called |-> TRUE, raised |-> FALSE, result |-> JList(0)]
            ELSE [called |-> TRUE, raised |-> FALSE, result |-> card_list.value]

\* Faulty variant: the list cut to the requested number of questions.
generate_quiz_truncating(cl, num_questions, difficulty, outcome) ==
    IF cl # "configured"
      THEN [called |-> FALSE, raised |-> FALSE, result |-> JList(0)]
    ELSE IF outcome.status \in RemoteFailures
      THEN [called |-> TRUE, raised |-> FALSE, result |-> JList(0)]
    ELSE LET parsed_json == json_loads(outcome.content)
             q_list == dict_get(parsed_json.value, "questions")
         IN IF parsed_json.raised \/ q_list.raised \/ q_list.value.t # "list"
              THEN [called |-> TRUE, raised |-> FALSE, result |-> JList(0)]
            ELSE [called |-> TRUE, raised |-> FALSE,
                  result |-> IF Len(q_list.value.items) > num_questions
                               THEN JList(num_questions) ELSE q_list.value]

\* lines 106-149.  num_questions and difficulty only enter the prompt.
generate_quiz_from_text(cl, num_questions, difficulty, outcome) ==
    IF cl # "configured"
      THEN [called |-> FALSE, raised |-> FALSE, result |-> JList(0)]
    ELSE IF outcome.status \in RemoteFailures
      THEN [called |-> TRUE, raised |-> FALSE, result |-> JList(0)]
    ELSE LET parsed_json == json_loads(outcome.content)
             q_list == dict_get(parsed_json.value, "questions")
         IN IF parsed_json.raised \/ q_list.raised
              THEN [called |-> TRUE, raised |-> FALSE, result |-> JList(0)]
            ELSE IF q_list.value.t # "list"
              THEN [called |-> TRUE, raised |-> FALSE, result |-> JList(0)]
            ELSE [called |-> TRUE, raised |-> FALSE, result |-> q_list.value]

\* lines 183-225.  num_cards only enters the prompt.
generate_flashcards_from_text(cl, num_cards, outcome) ==
    IF cl # "configured"
      THEN [called |-> FALSE, raised |-> FALSE, result |-> JList(0)]
    ELSE IF outcome.status \in RemoteFailures
      THEN [called |-> TRUE, raised |-> FALSE, result |-> JList(0)]
    ELSE LET parsed_json == json_loads(outcome.content)
             card_list == dict_get(parsed_json.value, "flashcards")
         IN IF parsed_json.raised \/ card_list.raised
              THEN [called |-> TRUE, raised |-> FALSE, result |-> JList(0)]
            ELSE IF card_list.value.t # "list"
              THEN [called |-> TRUE, raised |-> FALSE, result |-> JList(0)]
            ELSE [called |-> TRUE, raised |-> FALSE, result |-> card_list.value]

\* the template response of either view, or the framework's answer to an
\* exception that leaves the handler
Rendered(route, page, n, outcome, g, message) ==
    IF g.raised
      THEN [route |-> route, page |-> "unhandled", n |-> n, outcome |-> outcome,
            items |-> JNull, error |-> "Internal Server Error"]
    ELSE IF Falsy(g.result)
      THEN [route |-> route, page |-> page, n |-> n, outcome |-> outcome,
            items |-> JList(0), error |-> message]
    ELSE [route |-> route, page |-> page, n |-> n, outcome |-> outcome,
          items |-> g.result, error |-> "None"]

\* lines 153-178; the handler never awaits, so it runs as one step
get_quiz_questions(num_questions, difficulty, outcome) ==
    /\ LET g == generate_quiz_from_text(client, num_questions, difficulty, outcome)
       IN /\ view' = Rendered("/quiz", "quiz.html", num_questions, outcome, g, QuizError)
          /\ network_used' = (network_used \/ g.called)
    /\ UNCHANGED client
    /\ UNCHANGED uploadVars
    /\ UNCHANGED locVars

\* lines 229-252
get_flashcards(num_cards, outcome) ==
    /\ LET g == generate_flashcards_from_text(client, num_cards, outcome)
       IN /\ view' = Rendered("/flashcards", "flashcards.html", num_cards, outcome, g, FlashcardsError)
          /\ network_used' = (network_used \/ g.called)
    /\ UNCHANGED client
    /\ UNCHANGED uploadVars
    /\ UNCHANGED locVars

----------------------------------------------------------------------------
(* The locator run on its own *)

Locate ==
    /\ loc_pc = "start"
    /\ raw_abstract' = ExtractAbstract(full_text)
    /\ loc_pc' = "done"
    /\ UNCHANGED <<full_text, client, network_used, view>>
    /\ UNCHANGED uploadVars

----------------------------------------------------------------------------
(* Specifications *)

\* the state after the module's top-level code (lines 14-25) has run
InitServer ==
    /\ fs = [p \in Paths |-> NoFile]
    /\ content = [r \in Reqs |-> <<>>]
    /\ pc = [r \in Reqs |-> "init"]
    /\ filename = [r \in Reqs |-> ""]
    /\ body = [r \in Reqs |-> <<>>]
    /\ fd = [r \in Reqs |-> NoFile]
    /\ remote = [r \in Reqs |-> [status |-> "none", content |-> ""]]
    /\ alone = [r \in Reqs |-> NoResponse]
    /\ parsed = [r \in Reqs |-> FALSE]
    /\ response = [r \in Reqs |-> NoResponse]
    /\ network_used = FALSE
    /\ view = NoView

Init ==
    /\ client \in {"configured", "None"}
    /\ InitServer
    /\ full_text = <<>>
    /\ raw_abstract = <<>>
    /\ loc_pc = "off"

UploadOf(r) ==
    \/ \E fname \in Filenames : UploadStart(r, fname)
    \/ \E data \in Bodies, how \in {"ok", "read_fail", "write_fail"},
          outcome \in SummaryOutcomes : UploadResume(r, data, how, outcome)
    \/ UploadReturn(r)

NextUpload == \E r \in Reqs : UploadOf(r)

\* NumReqs uploads, interleaved at their suspension points
SpecUpload == Init /\ [][NextUpload]_vars

NextGen ==
    \/ \E n \in MinQuestions..MaxQuestions, d \in Difficulties,
          outcome \in JsonOutcomes("questions") : get_quiz_questions(n, d, outcome)
    \/ \E n \in MinCards..MaxCards, outcome \in JsonOutcomes("flashcards") :
          get_flashcards(n, outcome)

Next == UploadOf(1) \/ NextGen

\* one upload and any number of GET requests
Spec == Init /\ [][Next]_vars

InitLocate ==
    /\ client = "None"
    /\ InitServer
    /\ \E t \in Texts : full_text = Flatten(t)
    /\ raw_abstract = <<>>
    /\ loc_pc = "start"

NextLocate == Locate

\* the locator applied to every text of Texts
SpecLocate == InitLocate /\ [][NextLocate]_vars

----------------------------------------------------------------------------
(* Properties of the locator, checked under SpecLocate.  The markers are
   looked for in the text itself, character by character and without regard
   to case, not in its lowercased copy. *)

\* marker occurs at the 0-based index i of text, which leaves room for it
MatchesAt(text, i, marker) ==
    \A k \in 1..Len(marker) : LowerChar(text[i + k]) = <<marker[k]>>

Occurrences(text, marker, from) ==
    {i \in from..(Len(text) - Len(marker)) : MatchesAt(text, i, marker)}

Least(S) == CHOOSE i \in S : \A j \in S : i <= j

HasAbstract == Occurrences(full_text, start_marker, 0) # {}
\* 0-based index just past the first "abstract"
AfterAbstract == Least(Occurrences(full_text, start_marker, 0)) + Len(start_marker)
HasLaterIntroduction ==
    HasAbstract /\ Occurrences(full_text, end_marker, AfterAbstract) # {}
LaterIntroduction == Least(Occurrences(full_text, end_marker, AfterAbstract))
HasIntroduction == Occurrences(full_text, end_marker, 0) # {}

\* a is Strip(p) for some prefix p of rest
TrimmedPrefix(a, rest) ==
    LET n == Len(rest)
        Lead == {i \in 1..n : rest[i] \notin Whitespace}
    IN \/ a = <<>>
       \/ /\ Lead # {}
          /\ Least(Lead) + Len(a) - 1 <= n
          /\ a = SubSeq(rest, Least(Lead), Least(Lead) + Len(a) - 1)
          /\ a[Len(a)] \notin Whitespace

\* C2: with "abstract" and a later "introduction" in the text, the abstract is
\* the text between the end of the first "abstract" and the start of the first
\* later "introduction", stripped.
C2_BetweenMarkers ==
    (loc_pc = "done" /\ HasLaterIntroduction)
      => raw_abstract = Strip(Slice(full_text, AfterAbstract, LaterIntroduction))

\* C3: with neither marker in the text, the abstract is the first 3000
\* characters of the text.
C3_HeadOfText ==
    (loc_pc = "done" /\ ~HasAbstract /\ ~HasIntroduction)
      => raw_abstract = Slice(full_text, 0, AbstractLimit)

\* C3, amended: with neither marker in the text, the abstract is the fixed
\* text "Could not automatically find abstract."
C3_NotFoundText ==
    (loc_pc = "done" /\ ~HasAbstract /\ ~HasIntroduction)
      => raw_abstract = NotFoundText

\* a text of more than 3000 characters without a marker has been located
C3_Witness ==
    /\ loc_pc = "done"
    /\ ~HasAbstract /\ ~HasIntroduction
    /\ Len(full_text) > AbstractLimit
    /\ raw_abstract = NotFoundText

\* C4: with "abstract" but no later "introduction", the abstract is a stripped
\* piece of the text that starts right after the first "abstract", of at most
\* 3000 characters.
C4_AfterMarker ==
    (loc_pc = "done" /\ HasAbstract /\ ~HasLaterIntroduction)
      => /\ TrimmedPrefix(raw_abstract,
                          Slice(full_text, AfterAbstract, Len(full_text)))
         /\ Len(raw_abstract) <= AbstractLimit

----------------------------------------------------------------------------
(* Properties of the upload handler under concurrency, checked under
   SpecUpload *)

InFlightOn(fname) == {q \in Reqs : pc[q] = "reading" /\ filename[q] = fname}

\* C1: once an upload request has returned, the temporary file it wrote is
\* not on storage: no path names that file, and temp_<filename> exists only
\* as the file of another request that is still waiting for its bytes.
C1_TempFileRemoved ==
    \A r \in Reqs :
        pc[r] = "done" =>
            /\ fd[r] # NoFile => \A p \in Paths : fs[p] # fd[r]
            /\ fs[temp_pdf_path(filename[r])] # NoFile
                 => InFlightOn(filename[r]) # {}

\* a request has written, parsed and answered with the results view and has
\* returned, while another request holds a file of the same name open
C1_Witness ==
    \E r \in Reqs, q \in Reqs :
        /\ pc[r] = "done" /\ fd[r] # NoFile /\ response[r].kind = "results"
        /\ q \in InFlightOn(filename[r])

\* C10: every upload request, however interleaved with the others, answers
\* what it answers when it runs alone.
C10_Independent ==
    \A r \in Reqs : pc[r] = "done" => response[r] = alone[r]

----------------------------------------------------------------------------
(* Properties of the handlers, checked under Spec *)

WellFormed(outcome, key) ==
    /\ outcome.status = "ok"
    /\ outcome.content.t = "obj"
    /\ key \in DOMAIN outcome.content.fields
    /\ outcome.content.fields[key].t = "list"

\* C5: a quiz request for N questions renders exactly N questions when the
\* remote call succeeds with an object whose "questions" is a list, and the
\* empty list in every other case.
C5_ExactlyN ==
    view.route = "/quiz" =>
        IF client = "configured" /\ WellFormed(view.outcome, "questions")
          THEN Len(view.items.items) = view.n
        ELSE view.items = JList(0)

\* C5, amended: a quiz request renders the list under "questions" as the
\* remote model returned it, whatever its length, when the remote call
\* succeeds with an object whose "questions" is a list, and the empty list in
\* every other case.
C5_ListAsReturned ==
    view.route = "/quiz" =>
        /\ view.page = "quiz.html"
        /\ IF client = "configured" /\ WellFormed(view.outcome, "questions")
             THEN view.items = view.outcome.content.fields["questions"]
           ELSE view.items = JList(0)

\* a quiz view holds more questions than were asked for
C5_Witness ==
    /\ view.page = "quiz.html"
    /\ WellFormed(view.outcome, "questions")
    /\ Len(view.items.items) > view.n

\* C6: a flashcards request whose remote response does not parse, is no
\* object, lacks "flashcards" or holds a non-list under it renders the
\* flashcard view with no flashcards and an error message.
C6_MalformedGivesEmpty ==
    (/\ view.route = "/flashcards"
     /\ view.n \in MinCards..MaxCards
     /\ view.outcome.status = "ok"
     /\ ~WellFormed(view.outcome, "flashcards"))
      => /\ view.page = "flashcards.html"
         /\ view.items = JList(0)
         /\ view.error = FlashcardsError

\* the remote model answered a flashcards request with a string under
\* "flashcards"
C6_Witness ==
    /\ client = "configured"
    /\ view.page = "flashcards.html"
    /\ view.n = MaxCards
    /\ view.outcome.status = "ok"
    /\ view.outcome.content = JObj("flashcards" :> JStr)
    /\ view.items = JList(0)

\* C7: without a client no handler calls the remote model; an upload whose
\* PDF was read renders the results view with the configuration placeholder
\* as summary, and the GET handlers render an empty list.
C7_NoClientNoCall ==
    client = "None" =>
        /\ ~network_used
        /\ \A r \in Reqs :
               parsed[r] =>
                   response[r] =
                       Results(filename[r], NotConfigured,
                               ExtractAbstract(ExtractText(body[r])))
        /\ view.route # "none" =>
               /\ view.page \in {"quiz.html", "flashcards.html"}
               /\ view.items = JList(0)
               /\ view.error \in {QuizError, FlashcardsError}

\* without a client, an upload has answered and a quiz was asked for with a
\* remote outcome that would have held questions
C7_Witness ==
    /\ client = "None"
    /\ \E r \in Reqs : pc[r] = "done" /\ parsed[r]
    /\ view.route = "/quiz"
    /\ WellFormed(view.outcome, "questions")
    /\ view.outcome.content.fields["questions"] # JList(0)

====
